---- MODULE Spec2Model ----
(***************************************************************************)
(* A model of DiveComputer (src/diving_data.py): one dive session with its *)
(* oxygen fraction, depth, ascent rate, start time and dive time, the      *)
(* mutators, and the four derived metrics (PO2, NDL, CNS%, safe stop).     *)
(*                                                                         *)
(* Real numbers are exact rationals <<n, d>> in lowest terms with d > 0.   *)
(* A Python None is the empty set and a present value v is {v}.            *)
(***************************************************************************)
EXTENDS Integers, Sequences, FiniteSets, TLC

VARIABLES fo2, depth, start_time, dive_time, ascent_rate,
          lastOp, result, limit_time, now, lastStartReading, lastLifecycle

\* fo2, depth, start_time, dive_time, ascent_rate: the fields of the object.
\* lastOp: the method called last; result: what it returned or raised;
\* limit_time: the limit_time local of the last calculate_CNS call.
\* History of the calls: now is the last reading time.time() returned,
\* lastStartReading the reading it returned to the latest start_dive, and
\* lastLifecycle the most recent of the start_dive / stop_dive calls.
vars == <<fo2, depth, start_time, dive_time, ascent_rate,
          lastOp, result, limit_time, now, lastStartReading, lastLifecycle>>

(***************************************************************************)
(* Bounds of the model.                                                    *)
(***************************************************************************)
\* time.time() returns a reading in 0..MaxClock seconds, in any order
MaxClock == 2

(***************************************************************************)
(* Exact rational arithmetic.                                              *)
(***************************************************************************)
Abs(n) == IF n < 0 THEN -n ELSE n

RECURSIVE GCD(_, _)
GCD(a, b) == IF b = 0 THEN a ELSE GCD(b, a % b)

\* n/d in lowest terms with a positive denominator (d # 0)
Norm(n, d) ==
    LET g == GCD(Abs(n), Abs(d))
        s == IF d < 0 THEN -1 ELSE 1
    IN  <<(s * n) \div g, (s * d) \div g>>

R(n) == <<n, 1>>
RAdd(a, b) == Norm(a[1] * b[2] + b[1] * a[2], a[2] * b[2])
RSub(a, b) == Norm(a[1] * b[2] - b[1] * a[2], a[2] * b[2])
RMul(a, b) == Norm(a[1] * b[1], a[2] * b[2])
RDiv(a, b) == Norm(a[1] * b[2], a[2] * b[1])
RLe(a, b) == a[1] * b[2] <= b[1] * a[2]
RLt(a, b) == a[1] * b[2] < b[1] * a[2]

None == {}
Some(v) == {v}
The(s) == CHOOSE v \in s : TRUE

(***************************************************************************)
(* Outcome of a call: a returned value or a raised exception.              *)
(***************************************************************************)
NoResult == [kind |-> "none", value |-> R(0)]
Return(v) == [kind |-> "return", value |-> v]
Raise(e) == [kind |-> e, value |-> R(0)]

\* Python's a / b
PyDiv(a, b) == IF b[1] = 0 THEN Raise("ZeroDivisionError") ELSE Return(RDiv(a, b))

(***************************************************************************)
(* Inputs of the operations.                                               *)
(***************************************************************************)
FO2s == {Norm(21, 100), Norm(32, 100), Norm(1, 2), R(1)}
Depths == {R(-20), R(0), R(3), Norm(7, 2), R(12), Norm(25, 2), R(18),
           R(20), R(24), R(30), R(31)}
Rates == {R(-1), R(0), R(9)}
Clock == 0..MaxClock

(***************************************************************************)
(* The session object and its methods, as functions on the object.         *)
(***************************************************************************)
Self == [fo2 |-> fo2, depth |-> depth, start_time |-> start_time,
         dive_time |-> dive_time, ascent_rate |-> ascent_rate]

Becomes(s) ==
    /\ fo2' = s.fo2
    /\ depth' = s.depth
    /\ start_time' = s.start_time
    /\ dive_time' = s.dive_time
    /\ ascent_rate' = s.ascent_rate

\* DiveComputer.__init__
DiveComputer(f) == [fo2 |-> f, depth |-> R(0), start_time |-> None,
                    dive_time |-> R(0), ascent_rate |-> R(0)]

update_ascent_rate(self, new_rate) == [self EXCEPT !.ascent_rate = new_rate]

update_depth(self, new_depth) == [self EXCEPT !.depth = new_depth]

start_dive_keep_first(self, t) ==
    IF self.start_time = None THEN [self EXCEPT !.start_time = Some(t)] ELSE self

start_dive(self, t) == [self EXCEPT !.start_time = Some(t)]

stop_dive_keep_reference(self) == self

stop_dive_reset_time(self) == [self EXCEPT !.start_time = None, !.dive_time = R(0)]

stop_dive(self) == [self EXCEPT !.start_time = None]

calculate_dive_time(self, current_time) ==
    IF self.start_time # None
    THEN [self EXCEPT !.dive_time =
              RDiv(RSub(R(current_time), R(The(self.start_time))), R(60))]
    ELSE self

calculate_PO2(self) ==
    LET p_ambient == RAdd(R(1), RDiv(self.depth, R(10)))
    IN  RMul(self.fo2, p_ambient)

calculate_NDL_exclusive(self) ==
    IF RLt(self.depth, R(12)) THEN R(60)
    ELSE IF RLt(self.depth, R(18)) THEN R(50)
    ELSE IF RLt(self.depth, R(24)) THEN R(40)
    ELSE IF RLt(self.depth, R(30)) THEN R(25)
    ELSE R(20)

calculate_NDL(self) ==
    IF RLe(self.depth, R(12)) THEN R(60)
    ELSE IF RLe(self.depth, R(18)) THEN R(50)
    ELSE IF RLe(self.depth, R(24)) THEN R(40)
    ELSE IF RLe(self.depth, R(30)) THEN R(25)
    ELSE R(20)

\* The PO2 -> time limit table, ascending by PO2
cns_limits == <<
    <<Norm(10, 10), 570>>, <<Norm(11, 10), 480>>, <<Norm(12, 10), 420>>,
    <<Norm(13, 10), 360>>, <<Norm(14, 10), 300>>, <<Norm(15, 10), 240>>,
    <<Norm(16, 10), 150>>, <<Norm(17, 10), 120>>, <<Norm(18, 10), 90>>,
    <<Norm(19, 10), 60>>,  <<Norm(20, 10), 45>>,  <<Norm(21, 10), 30>>,
    <<Norm(22, 10), 25>>,  <<Norm(23, 10), 20>>,  <<Norm(24, 10), 15>>,
    <<Norm(25, 10), 10>>,  <<Norm(26, 10), 8>>,   <<Norm(27, 10), 6>>,
    <<Norm(28, 10), 5>>,   <<Norm(29, 10), 4>>,   <<Norm(30, 10), 3>> >>

sorted_po2_keys == [i \in 1..Len(cns_limits) |-> cns_limits[i][1]]

LimitOf(i) == R(cns_limits[i][2])

Interpolate_from_upper_key(i, po2) ==
    RAdd(RMul(RDiv(RSub(LimitOf(i + 1), LimitOf(i)),
                   RSub(sorted_po2_keys[i + 1], sorted_po2_keys[i])),
              RSub(po2, sorted_po2_keys[i + 1])),
         LimitOf(i))

\* the interpolation of the loop body at index i
Interpolate(i, po2) ==
    RAdd(RMul(RDiv(RSub(LimitOf(i + 1), LimitOf(i)),
                   RSub(sorted_po2_keys[i + 1], sorted_po2_keys[i])),
              RSub(po2, sorted_po2_keys[i])),
         LimitOf(i))

\* the indices at which the loop's condition holds
Brackets(po2) ==
    {i \in 1..(Len(sorted_po2_keys) - 1) :
        RLe(sorted_po2_keys[i], po2) /\ RLt(po2, sorted_po2_keys[i + 1])}

Min(S) == CHOOSE i \in S : \A j \in S : i <= j

EdgeLimit_strict(po2) ==
    IF RLt(sorted_po2_keys[Len(sorted_po2_keys)], po2)
    THEN LimitOf(Len(sorted_po2_keys))
    ELSE LimitOf(1)

\* the fallback when the loop found no bracket
EdgeLimit(po2) ==
    IF RLe(sorted_po2_keys[Len(sorted_po2_keys)], po2)
    THEN LimitOf(Len(sorted_po2_keys))
    ELSE LimitOf(1)

LimitTimeOf_extrapolate(po2) ==
    IF Brackets(po2) # {} THEN Interpolate(Min(Brackets(po2)), po2)
    ELSE IF RLe(sorted_po2_keys[Len(sorted_po2_keys)], po2)
         THEN Interpolate(Len(sorted_po2_keys) - 1, po2)
         ELSE Interpolate(1, po2)

\* the limit_time local of calculate_CNS
LimitTimeOf(po2) ==
    IF Brackets(po2) # {} THEN Interpolate(Min(Brackets(po2)), po2)
    ELSE EdgeLimit(po2)

calculate_CNS(self) ==
    LET q == PyDiv(self.dive_time, LimitTimeOf(calculate_PO2(self)))
    IN  IF q.kind = "return" THEN Return(RMul(q.value, R(100))) ELSE q

calculate_safe_stop_time_inclusive(self) ==
    LET safety_stop_depth == R(3)
    IN  IF RLe(safety_stop_depth, self.depth)
        THEN PyDiv(RSub(self.depth, safety_stop_depth), self.ascent_rate)
        ELSE Return(R(0))

calculate_safe_stop_time(self) ==
    LET safety_stop_depth == R(3)
    IN  IF RLt(safety_stop_depth, self.depth)
        THEN PyDiv(RSub(self.depth, safety_stop_depth), self.ascent_rate)
        ELSE Return(R(0))

(***************************************************************************)
(* The state machine: one action per method call.                          *)
(***************************************************************************)
Init ==
    /\ \E f \in FO2s : /\ fo2 = DiveComputer(f).fo2
                       /\ depth = DiveComputer(f).depth
                       /\ start_time = DiveComputer(f).start_time
                       /\ dive_time = DiveComputer(f).dive_time
                       /\ ascent_rate = DiveComputer(f).ascent_rate
    /\ lastOp = "__init__"
    /\ result = NoResult
    /\ limit_time = None
    /\ now = None
    /\ lastStartReading = None
    /\ lastLifecycle = "none"

NoOutcome == result' = NoResult /\ limit_time' = None

UpdateAscentRate ==
    \E r \in Rates :
        /\ Becomes(update_ascent_rate(Self, r))
        /\ lastOp' = "update_ascent_rate"
        /\ NoOutcome
        /\ UNCHANGED <<now, lastStartReading, lastLifecycle>>

UpdateDepth ==
    \E d \in Depths :
        /\ Becomes(update_depth(Self, d))
        /\ lastOp' = "update_depth"
        /\ NoOutcome
        /\ UNCHANGED <<now, lastStartReading, lastLifecycle>>

StartDive ==
    \E t \in Clock :
        /\ Becomes(start_dive(Self, t))
        /\ lastOp' = "start_dive"
        /\ NoOutcome
        /\ now' = Some(t)
        /\ lastStartReading' = Some(t)
        /\ lastLifecycle' = "start"

StopDive ==
    /\ Becomes(stop_dive(Self))
    /\ lastOp' = "stop_dive"
    /\ NoOutcome
    /\ lastLifecycle' = "stop"
    /\ UNCHANGED <<now, lastStartReading>>

\* time.time() is read only on the branch where start_time is present
CalculateDiveTime ==
    \E t \in Clock :
        /\ Becomes(calculate_dive_time(Self, t))
        /\ lastOp' = "calculate_dive_time"
        /\ NoOutcome
        /\ now' = IF start_time # None THEN Some(t) ELSE now
        /\ UNCHANGED <<lastStartReading, lastLifecycle>>

CalculatePO2 ==
    /\ lastOp' = "calculate_PO2"
    /\ result' = Return(calculate_PO2(Self))
    /\ limit_time' = None
    /\ UNCHANGED <<fo2, depth, start_time, dive_time, ascent_rate,
                   now, lastStartReading, lastLifecycle>>

CalculateNDL ==
    /\ lastOp' = "calculate_NDL"
    /\ result' = Return(calculate_NDL(Self))
    /\ limit_time' = None
    /\ UNCHANGED <<fo2, depth, start_time, dive_time, ascent_rate,
                   now, lastStartReading, lastLifecycle>>

CalculateCNS ==
    /\ lastOp' = "calculate_CNS"
    /\ result' = calculate_CNS(Self)
    /\ limit_time' = Some(LimitTimeOf(calculate_PO2(Self)))
    /\ UNCHANGED <<fo2, depth, start_time, dive_time, ascent_rate,
                   now, lastStartReading, lastLifecycle>>

CalculateSafeStopTime ==
    /\ lastOp' = "calculate_safe_stop_time"
    /\ result' = calculate_safe_stop_time(Self)
    /\ limit_time' = None
    /\ UNCHANGED <<fo2, depth, start_time, dive_time, ascent_rate,
                   now, lastStartReading, lastLifecycle>>

Next ==
    \/ UpdateAscentRate
    \/ UpdateDepth
    \/ StartDive
    \/ StopDive
    \/ CalculateDiveTime
    \/ CalculatePO2
    \/ CalculateNDL
    \/ CalculateCNS
    \/ CalculateSafeStopTime

Spec == Init /\ [][Next]_vars

TypeOK ==
    /\ fo2 \in FO2s
    /\ depth \in Depths
    /\ ascent_rate \in Rates
    /\ start_time \in {None} \cup {Some(t) : t \in Clock}
    /\ result.kind \in {"none", "return", "ZeroDivisionError"}

(***************************************************************************)
(* Properties.                                                             *)
(***************************************************************************)
Active == start_time # None
PO2 == calculate_PO2(Self)
Fields == <<fo2, depth, start_time, dive_time, ascent_rate>>
ReadOnlyOps == {"update_depth", "update_ascent_rate", "calculate_dive_time",
                "calculate_PO2", "calculate_NDL", "calculate_CNS",
                "calculate_safe_stop_time"}

\* C1: with depth > 3 and ascent_rate <= 0, calculate_safe_stop_time ends in
\* a returned value or a named error of its own, never in an unhandled
\* ZeroDivisionError.
C1_NoUnhandledDivision ==
    (/\ lastOp = "calculate_safe_stop_time"
     /\ RLt(R(3), depth)
     /\ RLe(ascent_rate, R(0)))
        => result.kind # "ZeroDivisionError"

\* C2: the session is Active exactly when the most recent of the start/stop
\* calls is a start; a fresh session is Inactive, start leads to Active, stop
\* leads to Inactive, and no other operation changes whether it is Active.
C2_ActiveIffStarted ==
    /\ [](/\ Active <=> (lastLifecycle = "start")
          /\ lastOp = "__init__" => ~Active
          /\ lastOp = "start_dive" => Active
          /\ lastOp = "stop_dive" => ~Active)
    /\ [][lastOp' \in ReadOnlyOps => (Active' <=> Active)]_vars

C2_Witness ==
    /\ lastOp = "stop_dive"
    /\ ~Active
    /\ lastStartReading # None

\* C3: dive_time changes only in calculate_dive_time called while Active;
\* start, stop and calculate_dive_time while Inactive leave it as it was.
C3_DiveTimeFrame ==
    [][dive_time' # dive_time =>
          (lastOp' = "calculate_dive_time" /\ Active)]_vars

C3_Witness ==
    /\ lastOp = "stop_dive"
    /\ dive_time # R(0)

\* C4: after calculate_dive_time on an Active session, dive_time is (the
\* clock reading of that call minus the reading of the latest start) / 60.
C4_ElapsedFromLatestStart ==
    (lastOp = "calculate_dive_time" /\ Active) =>
        /\ now # None /\ lastStartReading # None
        /\ dive_time[1] * 60 = (The(now) - The(lastStartReading)) * dive_time[2]

C4_Witness ==
    /\ lastOp = "calculate_dive_time"
    /\ Active
    /\ RLt(R(0), dive_time)

\* C5: dive_time is non-negative in every reachable state.
C5_DiveTimeNonNegative == RLe(R(0), dive_time)

\* C6: calculate_NDL returns 60, 50, 40, 25, 20 for depth in the bands
\* (.., 12], (12, 18], (18, 24], (24, 30], (30, ..), upper bounds inclusive.
C6_NDLBands ==
    lastOp = "calculate_NDL" =>
        /\ result.kind = "return"
        /\ RLe(depth, R(12)) => result.value = R(60)
        /\ (RLt(R(12), depth) /\ RLe(depth, R(18))) => result.value = R(50)
        /\ (RLt(R(18), depth) /\ RLe(depth, R(24))) => result.value = R(40)
        /\ (RLt(R(24), depth) /\ RLe(depth, R(30))) => result.value = R(25)
        /\ RLt(R(30), depth) => result.value = R(20)

C6_Witness ==
    /\ lastOp = "calculate_NDL"
    /\ depth = R(12)
    /\ result = Return(R(60))

\* C7: in calculate_CNS, PO2 below 1.0 uses the limit 570 and PO2 at or
\* above 3.0 uses the limit 3; the result is dive_time / limit * 100.
C7_EdgeClamping ==
    lastOp = "calculate_CNS" =>
        /\ RLt(PO2, R(1)) =>
              /\ limit_time = Some(R(570))
              /\ result.kind = "return"
              /\ RMul(result.value, R(570)) = RMul(dive_time, R(100))
        /\ RLe(R(3), PO2) =>
              /\ limit_time = Some(R(3))
              /\ result.kind = "return"
              /\ RMul(result.value, R(3)) = RMul(dive_time, R(100))

C7_Witness ==
    /\ lastOp = "calculate_CNS"
    /\ RLe(PO2, R(0))
    /\ dive_time # R(0)
    /\ limit_time = Some(R(570))

\* C8: in calculate_CNS, for 1.0 <= PO2 < 3.0 the limit is the linear
\* interpolation between the adjacent breakpoints lo <= PO2 < hi (so a
\* breakpoint gives its table value), and the result is
\* dive_time / limit * 100.
C8_Interpolation ==
    lastOp = "calculate_CNS" =>
        /\ limit_time # None
        /\ result.kind = "return"
        /\ RMul(result.value, The(limit_time)) = RMul(dive_time, R(100))
        /\ (RLe(R(1), PO2) /\ RLt(PO2, R(3))) =>
              \E i \in 1..(Len(cns_limits) - 1) :
                  LET lo == cns_limits[i][1]
                      hi == cns_limits[i + 1][1]
                  IN  /\ RLe(lo, PO2) /\ RLt(PO2, hi)
                      /\ RMul(The(limit_time), RSub(hi, lo)) =
                            RAdd(RMul(R(cns_limits[i][2]), RSub(hi, PO2)),
                                 RMul(R(cns_limits[i + 1][2]), RSub(PO2, lo)))
                      /\ PO2 = lo => limit_time = Some(R(cns_limits[i][2]))

C8_Witness ==
    /\ lastOp = "calculate_CNS"
    /\ PO2 = Norm(3, 2)
    /\ limit_time = Some(R(240))
    /\ dive_time # R(0)

\* C9: with depth <= 3, calculate_safe_stop_time returns 0 for every ascent
\* rate, raises nothing, and changes no field of the session.
C9_SafeStopZero ==
    [][(lastOp' = "calculate_safe_stop_time" /\ RLe(depth, R(3))) =>
          (result' = Return(R(0)) /\ UNCHANGED Fields)]_vars

C9_Witness ==
    /\ lastOp = "calculate_safe_stop_time"
    /\ depth = R(3)
    /\ ascent_rate = R(0)
    /\ result = Return(R(0))

\* C10: the limit calculate_CNS divides by lies in 3..570 and does not
\* increase as PO2 increases, so the division never fails and the result is
\* non-negative whenever dive_time is.
C10_LimitBounded ==
    lastOp = "calculate_CNS" =>
        /\ limit_time # None
        /\ RLe(R(3), The(limit_time)) /\ RLe(The(limit_time), R(570))
        /\ \A f \in FO2s, d \in Depths :
              LET p == calculate_PO2([Self EXCEPT !.fo2 = f, !.depth = d])
              IN  /\ RLe(PO2, p) => RLe(LimitTimeOf(p), The(limit_time))
                  /\ RLe(p, PO2) => RLe(The(limit_time), LimitTimeOf(p))
        /\ result.kind = "return"
        /\ RLe(R(0), dive_time) => RLe(R(0), result.value)

C10_Witness ==
    /\ lastOp = "calculate_CNS"
    /\ limit_time # None
    /\ RLt(R(3), The(limit_time)) /\ RLt(The(limit_time), R(570))
    /\ RLt(R(0), dive_time)
    /\ RLt(R(0), result.value)
====
